---- MODULE Spec2Model ----
(***************************************************************************)
(* Tile pipeline of the serpentine tool set: the tile cutter               *)
(* (src/tileset/util.py, cut_image_into_tiles / identify_palette) and the  *)
(* tile deduplicator (extract_tileset) as driven by                        *)
(* src/tileset_packer_tilemap.py process().                                *)
(*                                                                         *)
(* Tiles are tile_h x tile_w matrices of palette indexes, written as       *)
(* sequences of rows.  The real profiles use 8x8 tiles and 256..2048       *)
(* slots; the model scales both down, the code is independent of them.     *)
(***************************************************************************)
EXTENDS Integers, Sequences, FiniteSets, TLC

\* ------------------------------------------------------------------ bounds
\* Number of slots of the tileset (System.tile_count, scaled down).
TileCount == 2
\* Tiles read from all the inputs of one run (charset tiles and image tiles).
MaxPositions == 3

\* Height and width, in pixels, of the images given to the cutter.
MaxImageH == 4
MaxImageW == 2

\* ------------------------------------------------------- profile geometry
\* System.tile_size(): (tile_height, tile_width), scaled down from (8, 8).
tile_size == <<2, 2>>
tile_h == tile_size[1]
tile_w == tile_size[2]

\* Values of an indexed pixel (0 .. palette_size - 1) and of pal_map.
PixelValues == {0, 1}
PaletteIndexes == {0, 1}

\* Ordinals of the images handed to process() in one run, and the offsets a
\* charset is loaded at.  The only state shared between two calls of
\* extract_tileset is tileset/used_tiles, so two images show every effect.
ImageNumbers == {1, 2}
CharsetOffsets == {0, 1}

\* Every indexed tile of the scaled geometry.
AllTiles == [1..tile_h -> [1..tile_w -> PixelValues]]

\* Number of pixels of a tile that are not 0.
lit(t) == Cardinality({rc \in (1..tile_h) \X (1..tile_w) : t[rc[1]][rc[2]] # 0})

\* The tiles the inputs are drawn from: the blank tile (every flip gives the
\* tile itself), the four one-pixel tiles (every flip gives another tile) and
\* the two diagonals (flipud and fliplr give the same other tile).
Tiles == {t \in AllTiles : lit(t) <= 1 \/ (lit(t) = 2 /\ t[1][1] = t[2][2])}

\* np.zeros(...)[it]: the content of a slot that was never written.
ZeroTile == [r \in 1..tile_h |-> [c \in 1..tile_w |-> 0]]

Slots == 0..(TileCount - 1)

\* ------------------------------------------------------------ numpy helpers
\* np.flipud: reverse the order of the rows.
flipud(t) == [r \in 1..tile_h |-> t[tile_h + 1 - r]]

\* np.fliplr: reverse the order of the columns.
fliplr(t) == [r \in 1..tile_h |-> [c \in 1..tile_w |-> t[r][tile_w + 1 - c]]]

\* np.flip without axis: reverse every axis.
flip(t) == flipud(fliplr(t))

\* Store of a Python int into a np.uint16 cell.
to_uint16(x) == x % 65536

\* ------------------------------------------------------------------- state
VARIABLES
    pc,          \* position of process(): "charset", "images", "error"
    flipping,    \* System.flipping(): <<flip_v, flip_h>>
    has_charset, \* charset is not None
    char_offset, \* next slot written by the charset loop (0 once out of scope)
    char_end,    \* first slot the charset loop must not write (0 once out of scope)
    tileset,     \* Slots -> tile
    used_tiles,  \* Slots -> BOOLEAN
    results,     \* one sequence of entries <<tile_index, pal, flipping>> per image
    positions,   \* tiles read so far in this run
    last,        \* the last step taken: [kind, tile, pal]
    allocated,   \* the slots extract_tileset took for new tiles, in order
    sources,     \* tile_map of every call of extract_tileset, as far as read
    \* cut_image_into_tiles
    cut_pc,      \* position of the cutter: "idle", "cut", "done", "error"
    image_shape, \* <<image.shape[0], image.shape[1]>>
    palettes,    \* pal_count palettes of pal_size RGB colours
    image,       \* the RGB windows image[y0:y1, x0:x1] read so far, in scan order
    output,      \* the indexed tiles written so far, in scan order
    pal_map,     \* the palette indexes written so far, in scan order
    exception,   \* the exception that left the call, <<>> if none
    workers,     \* loop iterations (iy, ix) not run yet, when run in any order
    \* System registry, Config.run and process() of the two tools
    CONFIG_SPRITES,  \* System.CONFIG_SPRITES: name -> profile
    CONFIG_TILEMAPS, \* System.CONFIG_TILEMAPS: name -> profile
    run_pc,      \* position of the run, or the way it ended
    config,      \* the entry point and its arguments
    pal_shape,   \* <<palettes.shape[0], palettes.shape[1]>>
    system,      \* the profile object in use: <<is_sprite, name>>, <<>> for None
    ser_tileset, \* the tileset handed to the serializers
    bitplanes,   \* result of convert_to_bitplanes, <<>> if not computed
    serial,      \* the serialized bytes, <<>> if not computed
    \* TileSetLoader.load_tileset (tools-old-nes-project)
    load_pc,           \* position in load_tileset, or the exception that left it
    is_spritesheet,    \* self.is_spritesheet
    uint_wraps,        \* numpy stores -1 in a uint array as the maximum (else OverflowError)
    matrix,            \* the tiles of the image, in numpy.ndindex order
    complete_palettes, \* the sorted list of the palettes of 4 colours
    self_tilemap,      \* self.tilemap: the rows written so far
    self_tileset,      \* self.tileset: (tile, nb_colors) or None per slot
    \* Sequence.process (tileset_packer_spritesheet)
    sequence,    \* self.flip_v, self.flip_h of the Sequence
    tile_map0,   \* the frame cut into tiles, a matrix of tiles
    pal_map0,    \* its palette indexes, a matrix
    call         \* the call of extract_tileset going on: 0 unflipped, 1 v, 2 h, 3 vh

packer_vars == <<pc, flipping, has_charset, char_offset, char_end, tileset,
                 used_tiles, results, positions, last, allocated, sources>>
cut_vars == <<cut_pc, image_shape, palettes, image, output, pal_map, exception,
              workers>>
tool_vars == <<CONFIG_SPRITES, CONFIG_TILEMAPS, run_pc, config, pal_shape,
               system, ser_tileset, bitplanes, serial>>
load_vars == <<load_pc, is_spritesheet, uint_wraps, matrix, complete_palettes,
               self_tilemap, self_tileset>>
sprite_vars == <<sequence, tile_map0, pal_map0, call>>
vars == <<packer_vars, cut_vars, tool_vars, load_vars, sprite_vars>>

\* No Sequence being processed.
SpriteIdle ==
    /\ sequence = <<>>
    /\ tile_map0 = <<>>
    /\ pal_map0 = <<>>
    /\ call = 0

\* No TileSetLoader in use.
LoaderIdle ==
    /\ load_pc = "idle"
    /\ is_spritesheet = FALSE
    /\ uint_wraps = FALSE
    /\ matrix = <<>>
    /\ complete_palettes = <<>>
    /\ self_tilemap = <<>>
    /\ self_tileset = <<>>

\* No tool run in progress.
ToolIdle ==
    /\ CONFIG_SPRITES = <<>>
    /\ CONFIG_TILEMAPS = <<>>
    /\ run_pc = "idle"
    /\ config = <<>>
    /\ pal_shape = <<0, 0>>
    /\ system = <<>>
    /\ ser_tileset = <<>>
    /\ bitplanes = <<>>
    /\ serial = <<>>

\* ------------------------------------------------- extract_tileset, per tile
\* Mutant of match_code: the flip flags are read in the wrong order
\* (flipping[0] taken for horizontal, flipping[1] for vertical).
match_code_swapped(tile, tile0, flip_v, flip_h) ==
    IF tile = tile0 THEN 0
    ELSE IF flip_h /\ tile = flipud(tile0) THEN 1
    ELSE IF flip_v /\ tile = fliplr(tile0) THEN 2
    ELSE IF flip_v /\ flip_h /\ tile = flip(tile0) THEN 3
    ELSE -1

\* Mutant of match_code: the horizontal flip is tested before the vertical
\* one and the two codes are exchanged.
match_code_exchanged(tile, tile0, flip_v, flip_h) ==
    IF tile = tile0 THEN 0
    ELSE IF flip_h /\ tile = fliplr(tile0) THEN 1
    ELSE IF flip_v /\ tile = flipud(tile0) THEN 2
    ELSE IF flip_v /\ flip_h /\ tile = flip(tile0) THEN 3
    ELSE -1

\* The if/elif chain comparing the tile with one stored tile and its flips:
\* -1 no match, 0 identity, 1 vertical, 2 horizontal, 3 both.
match_code(tile, tile0, flip_v, flip_h) ==
    IF tile = tile0 THEN 0
    ELSE IF flip_v /\ tile = flipud(tile0) THEN 1
    ELSE IF flip_h /\ tile = fliplr(tile0) THEN 2
    ELSE IF flip_v /\ flip_h /\ tile = flip(tile0) THEN 3
    ELSE -1

\* The match buffer after the loop over the slots: only used slots are tested.
buffer_of(tile, ts, us, flp) ==
    [it \in DOMAIN us |->
        IF us[it] THEN match_code(tile, ts[it], flp[1], flp[2]) ELSE -1]

\* Mutant of first_match: the scan keeps the last matching slot (no break).
last_match(buf) ==
    CHOOSE it \in DOMAIN buf : buf[it] # -1 /\ \A jt \in DOMAIN buf : buf[jt] # -1 => jt <= it

\* for it in range(size): if buffer[it] != -1: ... break
first_match(buf) ==
    CHOOSE it \in DOMAIN buf : buf[it] # -1 /\ \A jt \in DOMAIN buf : buf[jt] # -1 => it <= jt

\* Mutant of first_free: the scan keeps the last free slot (no break).
last_free(us) ==
    CHOOSE it \in DOMAIN us : ~us[it] /\ \A jt \in DOMAIN us : ~us[jt] => jt <= it

\* Mutant of first_free: the test of used_tiles[it] is dropped, slot 0 is taken.
first_slot(us) == 0

\* for it in range(size): if not used_tiles[it]: ... break
first_free(us) ==
    CHOOSE it \in DOMAIN us : ~us[it] /\ \A jt \in DOMAIN us : ~us[jt] => it <= jt

\* One iteration of the loop over the tile positions: the tileset and the used
\* bitmap after it, the row written to output, and which branch was taken.
extract_tile(tile, pal, ts, us, flp) ==
    LET buf == buffer_of(tile, ts, us, flp) IN
    IF \E it \in DOMAIN buf : buf[it] # -1
    THEN LET it == first_match(buf) IN
         [tileset |-> ts, used_tiles |-> us, kind |-> "match",
          entry |-> <<to_uint16(it), to_uint16(pal), to_uint16(buf[it])>>]
    ELSE IF \E it \in DOMAIN us : ~us[it]
    THEN LET it == first_free(us) IN
         [tileset |-> [ts EXCEPT ![it] = tile],
          used_tiles |-> [us EXCEPT ![it] = TRUE], kind |-> "alloc",
          entry |-> <<to_uint16(it), to_uint16(pal), to_uint16(0)>>]
    ELSE [tileset |-> ts, used_tiles |-> us, kind |-> "full",
          entry |-> <<to_uint16(-1), to_uint16(pal), to_uint16(-1)>>]

\* ------------------------------------------------------ process(), packer
NoStep == [kind |-> "none", tile |-> ZeroTile, pal |-> 0]

\* tileset/used_tiles are allocated zeroed; with a charset, char_offset is the
\* given offset and char_end = char_offset + (char_size if char_size > -1 else
\* the number of tiles of the charset image).
Init ==
    /\ cut_pc = "idle"
    /\ image_shape = <<0, 0>>
    /\ palettes = <<>>
    /\ image = <<>>
    /\ output = <<>>
    /\ pal_map = <<>>
    /\ exception = <<>>
    /\ workers = {}
    /\ ToolIdle
    /\ flipping \in BOOLEAN \X BOOLEAN
    /\ has_charset \in BOOLEAN
    /\ pc = IF has_charset THEN "charset" ELSE "images"
    /\ char_offset \in IF has_charset THEN CharsetOffsets ELSE {0}
    /\ char_end \in IF has_charset THEN char_offset..(char_offset + MaxPositions - 1) ELSE {0}
    /\ tileset = [it \in Slots |-> ZeroTile]
    /\ used_tiles = [it \in Slots |-> FALSE]
    /\ results = <<>>
    /\ positions = 0
    /\ last = NoStep
    /\ allocated = <<>>
    /\ sources = <<>>
    /\ SpriteIdle
    /\ LoaderIdle

\* Mutant of CharsetStore: the tile is stored, the slot is not marked used.
CharsetStoreUnmarked(tile) ==
    /\ pc = "charset"
    /\ char_offset < char_end
    /\ char_offset < TileCount
    /\ positions < MaxPositions
    /\ tileset' = [tileset EXCEPT ![char_offset] = tile]
    /\ char_offset' = char_offset + 1
    /\ positions' = positions + 1
    /\ last' = [kind |-> "char", tile |-> tile, pal |-> 0]
    /\ UNCHANGED <<pc, flipping, has_charset, char_end, results, allocated, used_tiles,
                   sources>>
    /\ UNCHANGED <<cut_vars, tool_vars, load_vars, sprite_vars>>

\* The charset loop body: tileset[char_offset] = tile; used_tiles[char_offset] = True.
CharsetStore(tile) ==
    /\ pc = "charset"
    /\ char_offset < char_end
    /\ char_offset < TileCount
    /\ positions < MaxPositions
    /\ tileset' = [tileset EXCEPT ![char_offset] = tile]
    /\ used_tiles' = [used_tiles EXCEPT ![char_offset] = TRUE]
    /\ char_offset' = char_offset + 1
    /\ positions' = positions + 1
    /\ last' = [kind |-> "char", tile |-> tile, pal |-> 0]
    /\ UNCHANGED <<pc, flipping, has_charset, char_end, results, allocated, sources>>
    /\ UNCHANGED <<cut_vars, tool_vars, load_vars, sprite_vars>>

\* tileset[char_offset] with char_offset past the last slot: numpy's IndexError.
CharsetIndexError ==
    /\ pc = "charset"
    /\ char_offset < char_end
    /\ char_offset >= TileCount
    /\ pc' = "error"
    /\ UNCHANGED <<flipping, has_charset, char_offset, char_end, tileset,
                   used_tiles, results, positions, last, allocated, sources>>
    /\ UNCHANGED <<cut_vars, tool_vars, load_vars, sprite_vars>>

\* The charset loop ends: char_map is exhausted (any time) or char_offset
\* reached char_end.  Its locals go out of scope.
CharsetEnd ==
    /\ pc = "charset"
    /\ pc' = "images"
    /\ char_offset' = 0
    /\ char_end' = 0
    /\ UNCHANGED <<flipping, has_charset, tileset, used_tiles, results,
                   positions, last, allocated, sources>>
    /\ UNCHANGED <<cut_vars, tool_vars, load_vars, sprite_vars>>

\* for image in images: a call of extract_tileset starts with an empty output
\* (the images of the model hold at least one tile, except possibly the last).
BeginImage ==
    /\ pc = "images"
    /\ Len(results) + 1 \in ImageNumbers
    /\ IF results = <<>> THEN TRUE ELSE results[Len(results)] # <<>>
    /\ results' = Append(results, <<>>)
    /\ sources' = Append(sources, <<>>)
    /\ UNCHANGED <<pc, flipping, has_charset, char_offset, char_end, tileset,
                   used_tiles, positions, last, allocated>>
    /\ UNCHANGED <<cut_vars, tool_vars, load_vars, sprite_vars>>

\* One tile position of the image being extracted; the output of the call is
\* the last element of results.
ExtractTile(tile, pal) ==
    /\ pc = "images"
    /\ results # <<>>
    /\ positions < MaxPositions
    /\ LET r == extract_tile(tile, pal, tileset, used_tiles, flipping) IN
        /\ tileset' = r.tileset
        /\ used_tiles' = r.used_tiles
        /\ results' = [results EXCEPT ![Len(results)] = Append(@, r.entry)]
        /\ sources' = [sources EXCEPT ![Len(sources)] = Append(@, tile)]
        /\ last' = [kind |-> r.kind, tile |-> tile, pal |-> pal]
        /\ allocated' = IF r.kind = "alloc" THEN Append(allocated, r.entry[1])
                                            ELSE allocated
    /\ positions' = positions + 1
    /\ UNCHANGED <<pc, flipping, has_charset, char_offset, char_end>>
    /\ UNCHANGED <<cut_vars, tool_vars, load_vars, sprite_vars>>

Next ==
    \/ \E tile \in Tiles : CharsetStore(tile)
    \/ CharsetIndexError
    \/ CharsetEnd
    \/ BeginImage
    \/ \E tile \in Tiles, pal \in PaletteIndexes : ExtractTile(tile, pal)

Spec == Init /\ [][Next]_vars

\* ------------------------------------------------------------ tile cutter
\* RGB colours of the model's images and palettes.
Black == <<0, 0, 0>>
Red == <<255, 0, 0>>
White == <<255, 255, 255>>
Colors == {Black, Red, White}

\* A tile_h x tile_w window of RGB pixels.
RawTiles == [1..tile_h -> [1..tile_w -> Colors]]

\* The palette arrays of the model: two palettes of two colours; the second
\* set repeats a colour inside a palette.
PaletteSets == {<<<<Black, Red>>, <<Black, White>>>>, <<<<Red, Red>>, <<White, Black>>>>}

abs(x) == IF x < 0 THEN -x ELSE x

\* Mutant of cmp_rgb: only the red channel is compared.
cmp_rgb_red(a, b, ep) == ~(abs(a[1] - b[1]) > ep)

\* cmp_rgb: no channel differs by more than ep.
cmp_rgb(a, b, ep) == \A i \in 1..3 : ~(abs(a[i] - b[i]) > ep)

\* storage[pi, ty, tx] after the loops: the last colour index of palette pi
\* that compares equal to the pixel, -1 if none does (colour indexes from 0).
storage_cell(pix, pal) ==
    LET hits == {ci \in 1..Len(pal) : cmp_rgb(pix, pal[ci], 0)} IN
    IF hits = {} THEN -1 ELSE (CHOOSE ci \in hits : \A cj \in hits : cj <= ci) - 1

storage_of(tile, pals) ==
    [pi \in 1..Len(pals) |->
        [ty \in 1..tile_h |-> [tx \in 1..tile_w |-> storage_cell(tile[ty][tx], pals[pi])]]]

\* Mutant of complete: np.any in place of np.all.
complete_any(tile_def) == \E ty \in 1..tile_h, tx \in 1..tile_w : tile_def[ty][tx] # -1

\* np.all(tile_def != -1)
complete(tile_def) == \A ty \in 1..tile_h, tx \in 1..tile_w : tile_def[ty][tx] # -1

\* Mutant of identify_palette: the last palette whose storage cell has no -1.
identify_palette_last(tile, pals) ==
    LET storage == storage_of(tile, pals)
        found == {pi \in 1..Len(pals) : complete(storage[pi])} IN
    IF found = {}
    THEN [raised |-> TRUE, tile |-> ZeroTile, pal_index |-> 0]
    ELSE LET pi == CHOOSE pi \in found : \A pj \in found : pj <= pi IN
         [raised |-> FALSE, tile |-> storage[pi], pal_index |-> pi - 1]

\* identify_palette: the first palette (index from 0) whose storage cell has no
\* -1, with that cell; raised when there is none.
identify_palette(tile, pals) ==
    LET storage == storage_of(tile, pals)
        found == {pi \in 1..Len(pals) : complete(storage[pi])} IN
    IF found = {}
    THEN [raised |-> TRUE, tile |-> ZeroTile, pal_index |-> 0]
    ELSE LET pi == CHOOSE pi \in found : \A pj \in found : pi <= pj IN
         [raised |-> FALSE, tile |-> storage[pi], pal_index |-> pi - 1]

\* out_h = image.shape[0] // tile_h ; out_w = image.shape[1] // tile_w
out_h == image_shape[1] \div tile_h
out_w == image_shape[2] \div tile_w

\* tile_pos = (origin[0], origin[1], +ix, iy) of the k-th tile position in scan
\* order (k from 0), with the default origin (0, 0).
tile_pos(k) == <<0, 0, k % out_w, k \div out_w>>

\* raise Exception("Could not identify a palette for the tile.", tile_pos):
\* the arguments of the only exception identify_palette raises.
no_palette(pos) == <<"Could not identify a palette for the tile.", pos>>

\* A call of cut_image_into_tiles on an image of some shape.
CutInit ==
    /\ cut_pc = "cut"
    /\ image_shape \in (1..MaxImageH) \X (1..MaxImageW)
    /\ palettes \in PaletteSets
    /\ image = <<>>
    /\ output = <<>>
    /\ pal_map = <<>>
    /\ exception = <<>>
    /\ workers = {}
    /\ ToolIdle
    /\ pc = "idle"
    /\ flipping = <<FALSE, FALSE>>
    /\ has_charset = FALSE
    /\ char_offset = 0
    /\ char_end = 0
    /\ tileset = [it \in Slots |-> ZeroTile]
    /\ used_tiles = [it \in Slots |-> FALSE]
    /\ results = <<>>
    /\ positions = 0
    /\ last = NoStep
    /\ allocated = <<>>
    /\ sources = <<>>
    /\ SpriteIdle
    /\ LoaderIdle

\* One tile position (iy, ix), in scan order: the window is read, resolved by
\* identify_palette and written to output[iy, ix] / pal_map[iy, ix]; the
\* exception of identify_palette ends the call.
CutTile(window) ==
    /\ cut_pc = "cut"
    /\ Len(image) < out_h * out_w
    /\ image' = Append(image, window)
    /\ LET r == identify_palette(window, palettes) IN
        IF r.raised
        THEN /\ cut_pc' = "error"
             /\ exception' = no_palette(tile_pos(Len(image)))
             /\ UNCHANGED <<output, pal_map>>
        ELSE /\ output' = Append(output, r.tile)
             /\ pal_map' = Append(pal_map, r.pal_index)
             /\ cut_pc' = "cut"
             /\ UNCHANGED exception
    /\ UNCHANGED <<image_shape, palettes, workers>>
    /\ UNCHANGED <<packer_vars, tool_vars, load_vars, sprite_vars>>

\* return (output, pal_map)
CutReturn ==
    /\ cut_pc = "cut"
    /\ Len(image) = out_h * out_w
    /\ cut_pc' = "done"
    /\ UNCHANGED <<image_shape, palettes, image, output, pal_map, exception, workers>>
    /\ UNCHANGED <<packer_vars, tool_vars, load_vars, sprite_vars>>

CutNext ==
    \/ \E window \in RawTiles : CutTile(window)
    \/ CutReturn

SpecCut == CutInit /\ [][CutNext]_vars

\* C10 (as claimed): the cutter never returns a tile matrix for an image whose
\* height or width is not a multiple of the tile height or width.
C10_ShapeErrorRaised ==
    cut_pc = "done" =>
        image_shape[1] % tile_h = 0 /\ image_shape[2] % tile_w = 0

\* ================================================================== claims
\* Helpers of the statements below.
Min(S) == CHOOSE x \in S : \A y \in S : x <= y

\* The transform a flip code names, applied to a stored tile.
apply_flip(code, t) ==
    CASE code = 0 -> t
      [] code = 1 -> flipud(t)
      [] code = 2 -> fliplr(t)
      [] code = 3 -> flip(t)

\* A flip code whose bits the profile allows.
legal(code, flp) ==
    /\ code \in 0..3
    /\ (code \in {1, 3} => flp[1])
    /\ (code \in {2, 3} => flp[2])

\* The legal flip code maps the tile stored in a slot onto the tile.
CodeMatches(code, it, tile) ==
    legal(code, flipping) /\ apply_flip(code, tileset[it]) = tile

\* The slot is used and holds the tile under the identity or a legal flip.
SlotMatches(it, tile) ==
    used_tiles[it] /\ \E code \in 0..3 : CodeMatches(code, it, tile)

\* Used slots that hold the tile itself / the tile under some legal transform.
IdentitySlots(tile) == {it \in Slots : used_tiles[it] /\ tileset[it] = tile}
MatchingSlots(tile) == {it \in Slots : SlotMatches(it, tile)}
FreeSlots == {it \in Slots : ~used_tiles[it]}
UsedSlots == {it \in Slots : used_tiles[it]}

\* Every row written to an output so far, and the last one.
Entries == UNION {{results[i][k] : k \in 1..Len(results[i])} : i \in 1..Len(results)}
RECURSIVE Flatten(_)
Flatten(rs) == IF rs = <<>> THEN <<>> ELSE Flatten(SubSeq(rs, 1, Len(rs) - 1)) \o rs[Len(rs)]
LastEntry == Flatten(results)[Len(Flatten(results))]

\* A step of extract_tileset over one tile position (last' holds its input),
\* and the row it wrote to the output of the call.
ExtractStep == pc = "images" /\ positions' = positions + 1
NewEntry == results'[Len(results')][Len(results'[Len(results')])]

\* C1 (as claimed): whenever some used slot stores the tile's identity
\* representation, the entry references the lowest such slot with flip 00.
C1_IdentityPreferred ==
    [][ExtractStep =>
        LET ids == IdentitySlots(last'.tile) IN
        ids # {} => NewEntry = <<Min(ids), last'.pal, 0>>]_vars

\* C1 (amended): whenever some used slot matches the tile under the identity
\* or a legal flip, the entry references the lowest-indexed such slot, and its
\* flip code is the first legal code, in the order 00, 01, 10, 11, that maps
\* the tile stored there onto the tile (so 00 when the slot holds the identity).
C1_LowestMatchingSlot ==
    [][ExtractStep =>
        \A it \in Slots :
            (/\ SlotMatches(it, last'.tile)
             /\ \A jt \in 0..(it - 1) : ~SlotMatches(jt, last'.tile))
            => /\ NewEntry[1] = it
               /\ \A code \in 0..3 :
                     (/\ CodeMatches(code, it, last'.tile)
                      /\ \A lower \in 0..(code - 1) : ~CodeMatches(lower, it, last'.tile))
                     => NewEntry[3] = code]_vars

\* C1 witness: a tile was matched through a flip with a lower slot although a
\* higher used slot stores its identity representation.
C1_Witness ==
    /\ last.kind = "match"
    /\ LastEntry[3] # 0
    /\ \E it \in Slots : it > LastEntry[1] /\ used_tiles[it] /\ tileset[it] = last.tile

\* C2: a tile matching no used slot, with a free slot left, is stored unflipped
\* in the lowest free slot, only that slot becomes used, and the entry is
\* (slot, palette index of the position, 00).
C2_AllocLowestFree ==
    [][ExtractStep /\ MatchingSlots(last'.tile) = {} /\ FreeSlots # {} =>
        LET it == Min(FreeSlots) IN
        /\ tileset' = [tileset EXCEPT ![it] = last'.tile]
        /\ used_tiles' = [used_tiles EXCEPT ![it] = TRUE]
        /\ NewEntry = <<it, last'.pal, 0>>]_vars

\* C2 witness: a new tile went to slot 0 while a higher slot was free too.
C2_Witness ==
    /\ last.kind = "alloc"
    /\ LastEntry = <<0, last.pal, 0>>
    /\ tileset[0] = last.tile
    /\ \E it \in Slots : it > 0 /\ ~used_tiles[it]

\* C3 (as claimed): a tile matching no used slot when every slot is used makes
\* the operation fail, and no entry is emitted for it.
C3_CapacityExceededFails ==
    [][ExtractStep /\ MatchingSlots(last'.tile) = {} /\ FreeSlots = {} =>
        pc' = "error" /\ results' = results]_vars

\* C4 (as claimed): every emitted entry's tile_index is a used slot.
C4_EntryRefersToUsedSlot ==
    \A e \in Entries : e[1] \in Slots /\ used_tiles[e[1]]

\* C5: a used slot stays used and keeps its tile; an extract step changes at
\* most one slot, and only one that was free.
C5_UsedSlotsFrozen ==
    [][/\ \A it \in Slots : used_tiles[it] =>
              used_tiles'[it] /\ tileset'[it] = tileset[it]
       /\ ExtractStep =>
              LET changed == {it \in Slots : tileset'[it] # tileset[it]
                                             \/ used_tiles'[it] # used_tiles[it]} IN
              /\ Cardinality(changed) <= 1
              /\ \A it \in changed : ~used_tiles[it]]_vars

\* C5 witness: after a charset, a new tile was stored beside a used slot.
C5_Witness ==
    /\ has_charset
    /\ last.kind = "alloc"
    /\ Cardinality(UsedSlots) >= 2

\* C6: from an empty tileset, no two used slots hold equal tiles or tiles that
\* are images of each other under a legal flip.
C6_NoDuplicateSlots ==
    ~has_charset =>
        \A it \in UsedSlots, jt \in UsedSlots : it # jt =>
            \A code \in 0..3 :
                legal(code, flipping) => apply_flip(code, tileset[it]) # tileset[jt]

\* C6 witness: two slots are used and a tile was then matched through a flip.
C6_Witness ==
    /\ ~has_charset
    /\ Cardinality(UsedSlots) >= 2
    /\ last.kind = "match"
    /\ LastEntry[3] # 0

\* C7: from an empty tileset with horizontal flipping allowed, tile A then
\* tile B = fliplr(A) (B # A, and B # flipud(A) if vertical flipping is allowed)
\* leaves one used slot and B's entry is (slot of A, palette of B, 0b10).
C7_ScenarioB ==
    (/\ ~has_charset
     /\ positions = 2
     /\ flipping[2]
     /\ used_tiles[0]
     /\ last.tile = fliplr(tileset[0])
     /\ last.tile # tileset[0]
     /\ (flipping[1] => last.tile # flipud(tileset[0])))
    => (Cardinality(UsedSlots) = 1 /\ LastEntry = <<0, last.pal, 2>>)

\* C7 witness: the scenario with both flips allowed.
C7_Witness ==
    /\ ~has_charset
    /\ positions = 2
    /\ flipping = <<TRUE, TRUE>>
    /\ last.tile = fliplr(tileset[0])
    /\ last.tile # tileset[0]
    /\ last.tile # flipud(tileset[0])
    /\ LastEntry = <<0, last.pal, 2>>

\* C8: an entry emitted while a matching or a free slot exists has flip bits
\* in 0..3, the vertical bit only if vertical flipping is allowed and the
\* horizontal bit only if horizontal flipping is allowed.
C8_FlipBitsLegal ==
    [][ExtractStep /\ (MatchingSlots(last'.tile) # {} \/ FreeSlots # {}) =>
        /\ NewEntry[3] \in 0..3
        /\ (NewEntry[3] \in {1, 3} => flipping[1])
        /\ (NewEntry[3] \in {2, 3} => flipping[2])
        /\ (flipping = <<FALSE, FALSE>> => NewEntry[3] = 0)]_vars

\* C8 witness: only vertical flipping is allowed and the horizontal image of a
\* stored tile was given a slot of its own.
C8_Witness ==
    /\ flipping = <<TRUE, FALSE>>
    /\ last.kind = "alloc"
    /\ \E it \in UsedSlots : it # LastEntry[1] /\ last.tile = fliplr(tileset[it])

\* ------------------------------------------------- claims on the tile cutter
\* The distinct colours of a window.
colours_of(window) == {window[ty][tx] : ty \in 1..tile_h, tx \in 1..tile_w}

\* palettes.shape[1]
palette_size == Len(palettes[1])

\* Every pixel colour of the window occurs in palette p (p from 1).
Covers(p, window) ==
    \A ty \in 1..tile_h, tx \in 1..tile_w :
        \E ci \in 1..Len(palettes[p]) : palettes[p][ci] = window[ty][tx]

Covering(window) == {p \in 1..Len(palettes) : Covers(p, window)}

TooManyColours(window) == Cardinality(colours_of(window)) > palette_size

\* C11 as stated: a window with more distinct colours than palette_size ends
\* the run with nothing written for it, by an exception that no window with at
\* most palette_size colours can raise at that position (an error of its own,
\* distinguishable from the one of a tile that matches no palette).
C11_TooManyColorsDistinct ==
    \A k \in 1..Len(image) :
        TooManyColours(image[k]) =>
            /\ k = Len(image)
            /\ cut_pc = "error"
            /\ Len(output) = k - 1
            /\ \A w \in RawTiles :
                  (~TooManyColours(w) /\ Covering(w) = {})
                  => exception # no_palette(tile_pos(k - 1))

\* C11, amended: a window with more distinct colours than palette_size ends the
\* run with nothing written for it, by the one exception of identify_palette,
\* which carries the message of the unmatched tile and the tile position.
C11_TooManyColorsAborts ==
    \A k \in 1..Len(image) :
        TooManyColours(image[k]) =>
            /\ k = Len(image)
            /\ cut_pc = "error"
            /\ Len(output) = k - 1
            /\ Len(pal_map) = k - 1
            /\ exception = <<"Could not identify a palette for the tile.",
                             <<0, 0, (k - 1) % out_w, (k - 1) \div out_w>>>>

C11_Witness ==
    /\ cut_pc = "error"
    /\ Len(image) > 1
    /\ TooManyColours(image[Len(image)])

\* C12: every window covered by some palette is resolved to the lowest-indexed
\* covering palette and is no error; the call raises exactly at a window that
\* no palette covers.
C12_LowestCoveringPalette ==
    /\ \A k \in 1..Len(image) :
          IF Covering(image[k]) = {}
          THEN k = Len(image) /\ cut_pc = "error" /\ Len(pal_map) = k - 1
          ELSE /\ Len(pal_map) >= k
               /\ pal_map[k] + 1 \in Covering(image[k])
               /\ \A q \in Covering(image[k]) : pal_map[k] + 1 <= q
    /\ cut_pc = "error" => Covering(image[Len(image)]) = {}

C12_Witness ==
    \E k \in 1..Len(pal_map) :
        /\ Cardinality(Covering(image[k])) > 1
        /\ pal_map[k] = 0

\* C13: every value of every indexed tile is an index of the resolved palette,
\* and the palette colour at that index is the colour of the raw pixel.
C13_IndexRoundTrip ==
    \A k \in 1..Len(output) :
        \A ty \in 1..tile_h, tx \in 1..tile_w :
            /\ output[k][ty][tx] \in 0..(palette_size - 1)
            /\ palettes[pal_map[k] + 1][output[k][ty][tx] + 1] = image[k][ty][tx]

C13_Witness ==
    \E k \in 1..Len(output) :
        /\ palettes[pal_map[k] + 1][1] = palettes[pal_map[k] + 1][2]
        /\ output[k][1][1] = 1

\* -------------------------------------------------------- system profiles
\* The tile counts of the registered profiles, scaled: 256, 1024 and 2048
\* tiles stand as TileCount, TileCount + 1 and TileCount + 2 tiles.
tile_count_256 == TileCount
tile_count_1024 == TileCount + 1
tile_count_2048 == TileCount + 2

\* int(math.log2(n))
RECURSIVE ilog2(_)
ilog2(n) == IF n < 2 THEN 0 ELSE 1 + ilog2(n \div 2)

\* System.__init__: the fields of a profile (tiles of 8 x 8 pixels).
System(name, pal_count, pal_size, tile_count, intertwined, flip_h, flip_v, use_bitplanes) ==
    [name |-> name,
     palette_count |-> pal_count,
     palette_size |-> pal_size,
     tile_count |-> tile_count,
     tile_width |-> 8,
     tile_height |-> 8,
     flipping_h |-> flip_h,
     flipping_v |-> flip_v,
     intertwined |-> intertwined,
     bit_count |-> ilog2(pal_size),
     use_bitplanes |-> use_bitplanes]

\* The registrations of the module, in the dictionary they are stored in.
RegisteredTilemaps ==
    ("nes" :> System("nes", 4, 4, tile_count_256, 2, FALSE, FALSE, TRUE))
    @@ ("snes" :> System("snes", 16, 16, tile_count_1024, 2, TRUE, TRUE, TRUE))
    @@ ("gb" :> System("gb", 1, 4, tile_count_256, 2, FALSE, FALSE, TRUE))
    @@ ("gbc" :> System("gbc", 8, 4, tile_count_256, 2, TRUE, TRUE, TRUE))
    @@ ("sms" :> System("sms", 2, 16, tile_count_256, 4, TRUE, TRUE, TRUE))
    @@ ("md" :> System("md", 4, 16, tile_count_2048, 4, TRUE, TRUE, TRUE))

RegisteredSprites ==
    ("nes" :> System("nes", 4, 4, tile_count_256, 2, TRUE, TRUE, TRUE))
    @@ ("snes" :> System("snes", 16, 16, tile_count_1024, 2, TRUE, TRUE, TRUE))
    @@ ("gb" :> System("gb", 1, 4, tile_count_256, 2, FALSE, FALSE, TRUE))
    @@ ("gbc" :> System("gbc", 8, 4, tile_count_256, 2, TRUE, TRUE, TRUE))
    @@ ("sms" :> System("sms", 2, 16, tile_count_256, 4, FALSE, FALSE, TRUE))
    @@ ("md" :> System("md", 4, 16, tile_count_2048, 4, TRUE, TRUE, TRUE))

SystemNames == {"nes", "snes", "gb", "gbc", "sms", "md"}

\* System.get: the registered object itself, as the key it is stored under;
\* <<>> stands for None.
get(name, is_sprite) ==
    IF is_sprite
    THEN IF name \in DOMAIN CONFIG_SPRITES THEN <<TRUE, name>> ELSE <<>>
    ELSE IF name \in DOMAIN CONFIG_TILEMAPS THEN <<FALSE, name>> ELSE <<>>

\* The fields of the object a reference designates.
fields(ref) == IF ref[1] THEN CONFIG_SPRITES[ref[2]] ELSE CONFIG_TILEMAPS[ref[2]]

\* Mutant of check_palette: <= in place of ==.
check_palette_at_most(self, shape) ==
    shape[1] <= self.palette_count /\ shape[2] <= self.palette_size

\* System.check_palette, on the shape of the palette array.
check_palette(self, shape) ==
    self.palette_count = shape[1] /\ self.palette_size = shape[2]

\* System.serial_size
serial_size(self) == self.tile_count * self.bit_count * 8

\* ------------------------------------------------------------ serializers
\* Arrays are functions on 0..n-1, as the source indexes them.
size(a) == Cardinality(DOMAIN a)

\* Store of an integer into a np.uint8 cell.
to_uint8(x) == x % 256

\* (x & (0b1 << k)) != 0, as 0 or 1.
bit(x, k) == (x \div (2 ^ k)) % 2

\* np.zeros(n) after the writes <<index, value>> of a loop, taken in loop
\* order: a cell keeps the last value written to it.
store(writes, n) ==
    [idx \in 0..(n - 1) |->
        LET hits == {k \in DOMAIN writes : writes[k][1] = idx} IN
        IF hits = {} THEN 0
        ELSE writes[CHOOSE k \in hits : \A j \in hits : j <= k][2]]

\* Some write of the loop falls outside the buffer (no bounds check under njit).
out_of_bounds(writes, n) == \E k \in DOMAIN writes : writes[k][1] \notin 0..(n - 1)

\* Mutant of row_byte: the first pixel of the row lands in the lowest bit.
RECURSIVE row_byte_lsb(_, _, _)
row_byte_lsb(row, ib, tx) ==
    IF tx < 0 THEN 0
    ELSE to_uint8(row_byte_lsb(row, ib, tx - 1) + bit(row[tx], ib) * (2 ^ tx))

\* convert_to_bitplanes, buffer[ib] after the pixels 0..tx of a row:
\* byte <<= 1, then byte |= 1 if bit ib of the pixel is set.
RECURSIVE row_byte(_, _, _)
row_byte(row, ib, tx) ==
    IF tx < 0 THEN 0
    ELSE to_uint8(row_byte(row, ib, tx - 1) * 2 + bit(row[tx], ib))

\* convert_to_bitplanes: bitplanes[ib, it, ty]
convert_to_bitplanes(ts, bit_count) ==
    [ib \in 0..(bit_count - 1) |->
        [it \in 0..(size(ts) - 1) |->
            [ty \in 0..(size(ts[0]) - 1) |->
                row_byte(ts[it][ty], ib, size(ts[0][0]) - 1)]]]

\* row_count = 8 in serial_nes and serial_intertwined
row_count == 8

\* Mutant of nes_index: planes laid out one after the other over the tileset.
nes_index_plane_major(bp, it, row) == bp * tile_count_256 * row_count + it * row_count + row

\* serial_nes: index = row + row_count * (bp + bit_count * it), bit_count = 2
nes_index(bp, it, row) == row + row_count * (bp + 2 * it)

\* serial_nes: the writes of the loops over bp, it, row (tile_count = 256, scaled).
nes_writes(bp_) ==
    [k \in 0..(2 * tile_count_256 * row_count - 1) |->
        LET bp == k \div (tile_count_256 * row_count)
            it == (k \div row_count) % tile_count_256
            row == k % row_count IN
        <<nes_index(bp, it, row), bp_[bp][it][row]>>]

\* Mutant of serial_nes: the buffer holds one plane only.
serial_nes_one_plane(bp_) == store(nes_writes(bp_), tile_count_256 * row_count)

serial_nes(bp_) == store(nes_writes(bp_), 2 * tile_count_256 * row_count)

\* serial_intertwined: the writes of the loops over bp (in steps of
\* intertwine), it, row and i.
intertwined_writes(bp_, intertwine) ==
    LET bit_count == size(bp_)
        tile_count == size(bp_[0])
        groups == (bit_count + intertwine - 1) \div intertwine IN
    [k \in 0..(groups * tile_count * row_count * intertwine - 1) |->
        LET i == k % intertwine
            row == (k \div intertwine) % row_count
            it == (k \div (intertwine * row_count)) % tile_count
            bp == (k \div (intertwine * row_count * tile_count)) * intertwine
            index == intertwine * (row + row_count * (it + tile_count * bp)) IN
        <<index + i, bp_[bp + i][it][row]>>]

serial_intertwined(bp_, intertwine) ==
    store(intertwined_writes(bp_, intertwine), size(bp_[0]) * size(bp_) * row_count)

\* serial_snes_mode7: index = tx + ty * 8 + it * 64
mode7_writes(ts) ==
    LET tile_h_ == size(ts[0])
        tile_w_ == size(ts[0][0]) IN
    [k \in 0..(size(ts) * tile_h_ * tile_w_ - 1) |->
        LET tx == k % tile_w_
            ty == (k \div tile_w_) % tile_h_
            it == k \div (tile_w_ * tile_h_) IN
        <<tx + ty * 8 + it * 64, to_uint8(ts[it][ty][tx])>>]

serial_snes_mode7(ts) == store(mode7_writes(ts), size(ts) * 8 * 8)

\* Mutant of megadrive_byte: the first pixel goes to the low nibble.
megadrive_byte_swapped(pix0, pix1) == to_uint8(((pix1 % 16) * 16) + (pix0 % 16))

\* serial_megadrive: (pix0 << 4) | pix1, both masked with 0b1111
megadrive_byte(pix0, pix1) == to_uint8(((pix0 % 16) * 16) + (pix1 % 16))

\* serial_megadrive: index = (tx // 2) + ty * 4 + it * 32, tx in steps of 2
megadrive_writes(ts) ==
    LET tile_h_ == size(ts[0])
        pairs == (size(ts[0][0]) + 1) \div 2 IN
    [k \in 0..(size(ts) * tile_h_ * pairs - 1) |->
        LET tx == 2 * (k % pairs)
            ty == (k \div pairs) % tile_h_
            it == k \div (pairs * tile_h_) IN
        <<(tx \div 2) + ty * 4 + it * 32,
          megadrive_byte(ts[it][ty][tx], ts[it][ty][tx + 1])>>]

serial_megadrive(ts) == store(megadrive_writes(ts), size(ts) * 4 * 8)

\* serial_linear: acc = (acc << bit_count) | (tileset[it, ty, tx + i] & mask)
\* over i in range(n), from acc = 0.
RECURSIVE linear_acc(_, _, _, _)
linear_acc(row, tx, n, bit_count) ==
    IF n = 0 THEN 0
    ELSE linear_acc(row, tx, n - 1, bit_count) * (2 ^ bit_count)
         + (row[tx + n - 1] % (2 ^ bit_count))

\* serial_linear: the buffer row (bit_count bytes, uint8) when the loop over
\* ty of tile it is over: row[tx // pix_per_byte] = acc for every ty and every
\* tx in steps of pix_per_byte; with tiles 8 pixels wide each ty rewrites the
\* whole buffer.
linear_row(ts, it, bit_count) ==
    LET pix_per_byte == 8 \div bit_count
        tile_h_ == size(ts[it])
        groups == (size(ts[it][0]) + pix_per_byte - 1) \div pix_per_byte IN
    store([k \in 0..(tile_h_ * groups - 1) |->
              LET tx == pix_per_byte * (k % groups)
                  ty == k \div groups IN
              <<tx \div pix_per_byte,
                to_uint8(linear_acc(ts[it][ty], tx, pix_per_byte, bit_count))>>],
          bit_count)

\* serial_linear, swap_byte = False: once per tile, after the loop over ty
\* (ty keeps its last value), index = (ty * 8 + it * 64) // pix_per_byte and
\* serial[index : index + bit_count] = row.
linear_writes(ts, bit_count) ==
    LET pix_per_byte == 8 \div bit_count IN
    [k \in 0..(size(ts) * bit_count - 1) |->
        LET it == k \div bit_count
            ty == size(ts[it]) - 1 IN
        <<((ty * 8 + it * 64) \div pix_per_byte) + (k % bit_count),
          linear_row(ts, it, bit_count)[k % bit_count]>>]

serial_linear(ts, bit_count) ==
    store(linear_writes(ts, bit_count), size(ts) * 8 * bit_count)

\* ------------------------------------------- Config.run and process()
\* System.tileset_shape
tileset_shape(self) == <<self.tile_count, self.tile_height, self.tile_width>>

\* np.zeros(shape)
zero_tileset(shape) ==
    [it \in 0..(shape[1] - 1) |-> [ty \in 0..(shape[2] - 1) |-> [tx \in 0..(shape[3] - 1) |-> 0]]]

\* The tilesets of the model: all pixels 0 but one, or but two neighbours of a
\* row, in the first or the last tile, in the first or the last row.
Tilesets(shape, values) ==
    LET tiles == {0, shape[1] - 1}
        rows == {0, shape[2] - 1} IN
    {zero_tileset(shape)}
    \cup {[zero_tileset(shape) EXCEPT ![it][ty][tx] = v] :
            it \in tiles, ty \in rows, tx \in 0..(shape[3] - 1), v \in values}
    \cup {[zero_tileset(shape) EXCEPT ![it][ty][tx] = v, ![it][ty][tx + 1] = w] :
            it \in tiles, ty \in rows, tx \in 0..(shape[3] - 2), v \in values, w \in values}

\* Pixel values an indexed tile can hold for palettes of n colours.
ValuesBelow(n) == {1, 2, 3, n - 1}

\* The palette array shapes handed to the tools.
PalShapes == {<<1, 4>>, <<2, 4>>, <<4, 4>>, <<5, 4>>, <<8, 4>>, <<4, 2>>,
              <<2, 16>>, <<4, 16>>, <<16, 16>>}

\* --snes-bg-mode; "None" stands for None.
BgModes == {"None", "2bpp", "mode7", "16bpp"}

\* bg_modes = { '2bpp': 2, '4bpp': 4, '8bpp': 8, 'mode7': 8 }
bg_modes == ("2bpp" :> 2) @@ ("4bpp" :> 4) @@ ("8bpp" :> 8) @@ ("mode7" :> 8)

\* The entry points and their arguments: Config.run of tileset_to_binary
\* ("binary") and of tileset_packer_tilemap ("packer"), process() of
\* tileset_to_binary called with a registered profile ("process"), and the two
\* linear serializers and serial_linear called on a tileset.
Configs ==
    {c \in [tool : {"binary"},
            self : [system : SystemNames \cup {"pce"}, is_sprite : BOOLEAN,
                    snes_bg_mode : BgModes]] :
        c.self.system = "snes" \/ c.self.snes_bg_mode = "None"}
    \cup [tool : {"packer"}, self : [system : SystemNames \cup {"pce"}]]
    \cup [tool : {"process"}, self : [system : SystemNames, is_sprite : BOOLEAN]]
    \cup [tool : {"serial_snes_mode7", "serial_megadrive"}, self : {<<>>}]
    \cup [tool : {"serial_linear"}, self : [bit_count : {4, 8}]]

\* Mutant of getattr: the name snes_mode resolves to the field snes_bg_mode.
getattr_snes_mode(obj, name) ==
    IF name = "snes_mode"
    THEN [raised |-> FALSE, value |-> obj["snes_bg_mode"]]
    ELSE IF name \in DOMAIN obj
    THEN [raised |-> FALSE, value |-> obj[name]]
    ELSE [raised |-> TRUE, value |-> "None"]

\* self.<name>: the value of the field, AttributeError when the dataclass has
\* no such field.
getattr(obj, name) ==
    IF name \in DOMAIN obj
    THEN [raised |-> FALSE, value |-> obj[name]]
    ELSE [raised |-> TRUE, value |-> "None"]

ToolInit ==
    /\ CONFIG_SPRITES = RegisteredSprites
    /\ CONFIG_TILEMAPS = RegisteredTilemaps
    /\ config \in Configs
    /\ pal_shape \in IF config.tool \in {"binary", "packer", "process"}
                     THEN PalShapes ELSE {<<0, 0>>}
    /\ run_pc = IF config.tool \in {"binary", "packer"} THEN "run"
                ELSE IF config.tool = "process" THEN "process" ELSE "call"
    /\ system = IF config.tool = "process"
                THEN get(config.self.system, config.self.is_sprite) ELSE <<>>
    /\ ser_tileset = <<>>
    /\ bitplanes = <<>>
    /\ serial = <<>>
    /\ cut_pc = "idle"
    /\ image_shape = <<0, 0>>
    /\ palettes = <<>>
    /\ image = <<>>
    /\ output = <<>>
    /\ pal_map = <<>>
    /\ exception = <<>>
    /\ workers = {}
    /\ pc = "idle"
    /\ flipping = <<FALSE, FALSE>>
    /\ has_charset = FALSE
    /\ char_offset = 0
    /\ char_end = 0
    /\ tileset = [it \in Slots |-> ZeroTile]
    /\ used_tiles = [it \in Slots |-> FALSE]
    /\ results = <<>>
    /\ positions = 0
    /\ last = NoStep
    /\ allocated = <<>>
    /\ sources = <<>>
    /\ SpriteIdle
    /\ LoaderIdle

other_vars == <<packer_vars, cut_vars, load_vars, sprite_vars>>

\* Config.run: system = System.get(...); sys.exit(1) when it is None. The
\* packer asks for the tilemap profile.
RunGet ==
    /\ run_pc = "run"
    /\ LET ref == get(config.self.system,
                      IF config.tool = "binary" THEN config.self.is_sprite ELSE FALSE) IN
        /\ system' = ref
        /\ run_pc' = IF ref = <<>> THEN "exit(1)"
                     ELSE IF config.tool = "binary" /\ config.self.system = "snes"
                     THEN "bg_mode" ELSE "process"
    /\ UNCHANGED <<CONFIG_SPRITES, CONFIG_TILEMAPS, config, pal_shape,
                   ser_tileset, bitplanes, serial>>
    /\ UNCHANGED other_vars

\* system.<field> = value, on the object System.get returned.
setattr(registry, is_sprite, ref, field, value) ==
    IF ref[1] = is_sprite
    THEN [registry EXCEPT ![ref[2]] = [@ EXCEPT ![field] = value]]
    ELSE registry

\* Config.run of tileset_to_binary, the block under if self.system == 'snes'.
RunSnesMode ==
    /\ run_pc = "bg_mode"
    /\ LET mode == getattr(config.self, "snes_mode") IN
        IF mode.raised
        THEN /\ run_pc' = "AttributeError"
             /\ UNCHANGED <<CONFIG_SPRITES, CONFIG_TILEMAPS>>
        ELSE IF mode.value = "None"
        THEN /\ run_pc' = "exit(2)"
             /\ UNCHANGED <<CONFIG_SPRITES, CONFIG_TILEMAPS>>
        ELSE IF mode.value \in DOMAIN bg_modes
        THEN /\ run_pc' = "process"
             /\ LET sprites == setattr(CONFIG_SPRITES, TRUE, system,
                                       "bit_count", bg_modes[mode.value])
                    tilemaps == setattr(CONFIG_TILEMAPS, FALSE, system,
                                        "bit_count", bg_modes[mode.value]) IN
                 IF mode.value = "mode7"
                 THEN /\ CONFIG_SPRITES' =
                            setattr(sprites, TRUE, system, "use_bitplanes", FALSE)
                      /\ CONFIG_TILEMAPS' =
                            setattr(tilemaps, FALSE, system, "use_bitplanes", FALSE)
                 ELSE /\ CONFIG_SPRITES' = sprites
                      /\ CONFIG_TILEMAPS' = tilemaps
        ELSE /\ run_pc' = "exit(3)"
             /\ UNCHANGED <<CONFIG_SPRITES, CONFIG_TILEMAPS>>
    /\ UNCHANGED <<config, pal_shape, system, ser_tileset, bitplanes, serial>>
    /\ UNCHANGED other_vars

\* process(): the palette check that opens it, in both tools. The rest of the
\* packer's process() is the specification Spec.
ProcessCheckPalette ==
    /\ run_pc = "process"
    /\ run_pc' = IF ~check_palette(fields(system), pal_shape) THEN "Exception: palette"
                 ELSE IF config.tool = "packer" THEN "packing" ELSE "cut"
    /\ UNCHANGED <<CONFIG_SPRITES, CONFIG_TILEMAPS, config, pal_shape, system,
                   ser_tileset, bitplanes, serial>>
    /\ UNCHANGED other_vars

\* process(): cut_image_into_tiles and reshape_tileset hand over a tileset of
\* the profile's shape, its values indexes of a palette.
ProcessCut ==
    /\ run_pc = "cut"
    /\ \E ts \in Tilesets(tileset_shape(fields(system)),
                          ValuesBelow(fields(system).palette_size)) :
          ser_tileset' = ts
    /\ run_pc' = "serialize"
    /\ UNCHANGED <<CONFIG_SPRITES, CONFIG_TILEMAPS, config, pal_shape, system,
                   bitplanes, serial>>
    /\ UNCHANGED other_vars

\* process(): the exception of identify_palette leaves cut_image_into_tiles.
ProcessCutRaise ==
    /\ run_pc = "cut"
    /\ run_pc' = "Exception: tile"
    /\ UNCHANGED <<CONFIG_SPRITES, CONFIG_TILEMAPS, config, pal_shape, system,
                   ser_tileset, bitplanes, serial>>
    /\ UNCHANGED other_vars

\* process(): the choice of the serializer and its call. A serializer that
\* writes outside its buffer either ends the process or returns the buffer.
ProcessSerialize ==
    /\ run_pc = "serialize"
    /\ LET self == fields(system)
           returned == IF config.tool = "binary" THEN "write" ELSE "returned" IN
        IF self.use_bitplanes
        THEN LET b == convert_to_bitplanes(ser_tileset, self.bit_count) IN
             /\ bitplanes' = b
             /\ IF self.name = "nes"
                THEN serial' = serial_nes(b) /\ run_pc' = returned
                ELSE \/ serial' = serial_intertwined(b, self.intertwined)
                        /\ run_pc' = returned
                     \/ /\ out_of_bounds(intertwined_writes(b, self.intertwined),
                                         size(b[0]) * size(b) * row_count)
                        /\ serial' = <<>>
                        /\ run_pc' = "crash"
        ELSE /\ UNCHANGED bitplanes
             /\ IF self.name = "snes"
                THEN serial' = serial_snes_mode7(ser_tileset) /\ run_pc' = returned
                ELSE IF self.name = "md"
                THEN serial' = serial_megadrive(ser_tileset) /\ run_pc' = returned
                ELSE serial' = <<>> /\ run_pc' = "Exception: serialize"
    /\ UNCHANGED <<CONFIG_SPRITES, CONFIG_TILEMAPS, config, pal_shape, system,
                   ser_tileset>>
    /\ UNCHANGED other_vars

\* process() of tileset_packer_tilemap after the palette check, by its outcome:
\* it returns (tileset, results), or an exception leaves it (the one of
\* identify_palette, or the IndexError of the charset loop).
PackerProcess ==
    /\ run_pc = "packing"
    /\ run_pc' \in {"write", "Exception: tile", "IndexError"}
    /\ UNCHANGED <<CONFIG_SPRITES, CONFIG_TILEMAPS, config, pal_shape, system,
                   ser_tileset, bitplanes, serial>>
    /\ UNCHANGED other_vars

\* Mutant of RunWrite: the output file is written before process() is called.
RunWriteFirst ==
    /\ run_pc = "process"
    /\ run_pc' = "written"
    /\ UNCHANGED <<CONFIG_SPRITES, CONFIG_TILEMAPS, config, pal_shape, system,
                   ser_tileset, bitplanes, serial>>
    /\ UNCHANGED other_vars

\* Config.run: the result of process() is written to the output file (the
\* bytes in tileset_to_binary, the tileset image in tileset_packer_tilemap).
RunWrite ==
    /\ run_pc = "write"
    /\ run_pc' = "written"
    /\ UNCHANGED <<CONFIG_SPRITES, CONFIG_TILEMAPS, config, pal_shape, system,
                   ser_tileset, bitplanes, serial>>
    /\ UNCHANGED other_vars

\* serial_snes_mode7(tileset)
CallSerialSnesMode7(ts) ==
    /\ run_pc = "call"
    /\ config.tool = "serial_snes_mode7"
    /\ ser_tileset' = ts
    /\ serial' = serial_snes_mode7(ts)
    /\ run_pc' = "returned"
    /\ UNCHANGED <<CONFIG_SPRITES, CONFIG_TILEMAPS, config, pal_shape, system, bitplanes>>
    /\ UNCHANGED other_vars

\* serial_megadrive(tileset)
CallSerialMegadrive(ts) ==
    /\ run_pc = "call"
    /\ config.tool = "serial_megadrive"
    /\ ser_tileset' = ts
    /\ serial' = serial_megadrive(ts)
    /\ run_pc' = "returned"
    /\ UNCHANGED <<CONFIG_SPRITES, CONFIG_TILEMAPS, config, pal_shape, system, bitplanes>>
    /\ UNCHANGED other_vars

\* serial_linear(tileset, bit_count)
CallSerialLinear(ts) ==
    /\ run_pc = "call"
    /\ config.tool = "serial_linear"
    /\ ser_tileset' = ts
    /\ serial' = serial_linear(ts, config.self.bit_count)
    /\ run_pc' = "returned"
    /\ UNCHANGED <<CONFIG_SPRITES, CONFIG_TILEMAPS, config, pal_shape, system, bitplanes>>
    /\ UNCHANGED other_vars

ToolNext ==
    \/ RunGet
    \/ RunSnesMode
    \/ ProcessCheckPalette
    \/ ProcessCut
    \/ ProcessCutRaise
    \/ ProcessSerialize
    \/ PackerProcess
    \/ RunWrite
    \/ \E ts \in Tilesets(<<TileCount, 8, 8>>, {1, 15, 255}) : CallSerialSnesMode7(ts)
    \/ \E ts \in Tilesets(<<TileCount, 8, 8>>, {3, 15, 19}) : CallSerialMegadrive(ts)
    \/ \E ts \in Tilesets(<<TileCount, 8, 8>>, {3, 15, 255}) : CallSerialLinear(ts)

SpecTool == ToolInit /\ [][ToolNext]_vars

\* ------------------------------------------------------ claims on the tools
\* The run went through process() of tileset_to_binary.
ViaProcess == config.tool \in {"binary", "process"}

\* The serializer returned its bytes.
Returned == run_pc \in {"write", "written", "returned"}

\* The palette check of process() let the run through.
PaletteAccepted ==
    /\ config.tool \in {"binary", "packer", "process"}
    /\ run_pc \in {"cut", "packing", "serialize", "write", "written", "returned",
                   "crash", "Exception: tile", "IndexError"}

PaletteRejected == run_pc = "Exception: palette"

TileIndexes == 0..(size(ser_tileset) - 1)
RowIndexes == 0..7
ColumnIndexes == 0..7

\* process() of tileset_to_binary returned the bytes of the named profile.
Serialized(name) == ViaProcess /\ Returned /\ config.self.system = name

\* C15: with the registered md profile, byte t*32 + r*4 + k of the output of
\* process() is (pixel[r][2k] << 4) | pixel[r][2k+1].
C15_MegadriveLinearPacking ==
    Serialized("md") =>
        \A t \in TileIndexes, r \in RowIndexes, k \in 0..3 :
            serial[t * 32 + r * 4 + k] =
                ser_tileset[t][r][2 * k] * 16 + ser_tileset[t][r][2 * k + 1]

\* C16 as stated: in the NES output the byte of plane p, tile t, row r is at
\* index p * tile_count * 8 + t * 8 + r.
C16_PlaneMajor ==
    Serialized("nes") =>
        \A p \in 0..1, t \in TileIndexes, r \in RowIndexes :
            serial[p * size(ser_tileset) * 8 + t * 8 + r] = bitplanes[p][t][r]

\* C16, amended: in the NES output the byte of plane p, tile t, row r is at
\* index t * 16 + p * 8 + r: the 8 plane-0 bytes of a tile, then its 8 plane-1
\* bytes, then the next tile.
C16_TileMajor ==
    Serialized("nes") =>
        \A p \in 0..1, t \in TileIndexes, r \in RowIndexes :
            serial[t * 16 + p * 8 + r] = bitplanes[p][t][r]

C16_Witness ==
    /\ Serialized("nes")
    /\ \E r \in RowIndexes, c \in ColumnIndexes :
          ser_tileset[size(ser_tileset) - 1][r][c] >= 2

\* The bit planes of the run are computed.
HasBitplanes == ViaProcess /\ (Returned \/ run_pc = "crash")

\* C17 as stated: bit i (of weight 2^i) of plane p's byte for row r is set iff
\* bit p of the value of pixel i of that row is set.
C17_BitIsColumn ==
    HasBitplanes =>
        \A p \in DOMAIN bitplanes, t \in TileIndexes, r \in RowIndexes, i \in ColumnIndexes :
            bit(bitplanes[p][t][r], i) = bit(ser_tileset[t][r][i], p)

\* C17, amended: bit 7 - i of plane p's byte for row r is set iff bit p of the
\* value of pixel i of that row is set (pixel 0 is the highest bit); the byte
\* is a function of plane p of the pixels of row r alone.
C17_BitIsMirroredColumn ==
    HasBitplanes =>
        \A p \in DOMAIN bitplanes, t \in TileIndexes, r \in RowIndexes, i \in ColumnIndexes :
            bit(bitplanes[p][t][r], 7 - i) = bit(ser_tileset[t][r][i], p)

C17_Witness ==
    /\ HasBitplanes
    /\ size(bitplanes) = 4
    /\ \E t \in TileIndexes, r \in RowIndexes : ser_tileset[t][r][1] = 2

\* The inverse bit-unpackings: the pixel (t, r, c) read back from the bytes.
nes_pixel(bytes, t, r, c) ==
    bit(bytes[t * 16 + r], 7 - c) + 2 * bit(bytes[t * 16 + 8 + r], 7 - c)

mode7_pixel(bytes, t, r, c) == bytes[t * 64 + r * 8 + c]

megadrive_pixel(bytes, t, r, c) ==
    IF c % 2 = 0
    THEN bytes[t * 32 + r * 4 + c \div 2] \div 16
    ELSE bytes[t * 32 + r * 4 + c \div 2] % 16

\* Every pixel value of the tileset is below n.
ValuesUnder(n) ==
    \A t \in TileIndexes, r \in RowIndexes, c \in ColumnIndexes : ser_tileset[t][r][c] < n

CalledAndReturned(fn) == config.tool = fn /\ run_pc = "returned"

\* C18: the bytes of the planar NES serialization, of serial_snes_mode7 and of
\* serial_megadrive decode to the tileset they were made from, whenever its
\* pixel values are below 2^bit_count (so no two such tilesets share their
\* bytes).
C18_Lossless ==
    /\ (Serialized("nes") /\ ValuesUnder(4)) =>
          \A t \in TileIndexes, r \in RowIndexes, c \in ColumnIndexes :
              nes_pixel(serial, t, r, c) = ser_tileset[t][r][c]
    /\ (CalledAndReturned("serial_snes_mode7") /\ ValuesUnder(256)) =>
          \A t \in TileIndexes, r \in RowIndexes, c \in ColumnIndexes :
              mode7_pixel(serial, t, r, c) = ser_tileset[t][r][c]
    /\ (CalledAndReturned("serial_megadrive") /\ ValuesUnder(16)) =>
          \A t \in TileIndexes, r \in RowIndexes, c \in ColumnIndexes :
              megadrive_pixel(serial, t, r, c) = ser_tileset[t][r][c]

C18_Witness ==
    /\ CalledAndReturned("serial_megadrive")
    /\ ValuesUnder(16)
    /\ \E t \in TileIndexes, r \in RowIndexes :
          ser_tileset[t][r][2] = 15 /\ ser_tileset[t][r][3] = 3

\* C19: the bytes process() returns are serial_size() many for every
\* registered profile; for the NES profile that is 16 bytes per tile, and the
\* 16 bytes of an all-zero tile are zero.
C19_SerialSize ==
    (ViaProcess /\ Returned) =>
        /\ size(serial) = serial_size(fields(system))
        /\ config.self.system = "nes" =>
              /\ size(serial) = 16 * size(ser_tileset)
              /\ \A t \in TileIndexes :
                    (\A r \in RowIndexes, c \in ColumnIndexes : ser_tileset[t][r][c] = 0)
                    => \A j \in 0..15 : serial[t * 16 + j] = 0

C19_Witness ==
    /\ Serialized("nes")
    /\ \E r \in RowIndexes, c \in ColumnIndexes : ser_tileset[1][r][c] # 0
    /\ \A r \in RowIndexes, c \in ColumnIndexes : ser_tileset[0][r][c] = 0

Failed ==
    run_pc \in {"exit(1)", "exit(2)", "exit(3)", "AttributeError", "Exception: palette",
                "Exception: tile", "Exception: serialize", "IndexError", "crash"}

Intertwined == HasBitplanes /\ config.self.system # "nes"

\* C22: serial_intertwined writes every byte of the bit planes once, to
\* indexes that are distinct and inside the buffer of
\* tile_count * bit_count * 8 bytes, the planes of a group side by side.
C22_IntertwinedWithinBuffer ==
    Intertwined =>
        LET writes == intertwined_writes(bitplanes, fields(system).intertwined)
            n == size(bitplanes[0]) * size(bitplanes) * row_count IN
        /\ run_pc # "crash"
        /\ size(writes) = n
        /\ \A j \in DOMAIN writes : writes[j][1] \in 0..(n - 1)
        /\ \A j \in DOMAIN writes, k \in DOMAIN writes :
              j # k => writes[j][1] # writes[k][1]
        /\ \A j \in DOMAIN writes :
              j % fields(system).intertwined # 0 => writes[j][1] = writes[j - 1][1] + 1

WorkerPositions == 0..(out_h * out_w - 1)

\* Mutant of cell: the worker writes the next cell not written yet.
cell_next(k, left) == out_h * out_w - Cardinality(left) + 1

\* output[iy, ix] / pal_map[iy, ix]: the cell of position k = iy * out_w + ix.
cell(k, left) == k + 1

\* output and pal_map are allocated with np.zeros before the loops.
WorkersInit ==
    /\ cut_pc = "workers"
    /\ image_shape \in (1..MaxImageH) \X (1..MaxImageW)
    /\ palettes \in PaletteSets
    /\ image \in [1..(out_h * out_w) -> RawTiles]
    /\ output = [k \in 1..(out_h * out_w) |-> ZeroTile]
    /\ pal_map = [k \in 1..(out_h * out_w) |-> 0]
    /\ exception = <<>>
    /\ workers = WorkerPositions
    /\ ToolIdle
    /\ pc = "idle"
    /\ flipping = <<FALSE, FALSE>>
    /\ has_charset = FALSE
    /\ char_offset = 0
    /\ char_end = 0
    /\ tileset = [it \in Slots |-> ZeroTile]
    /\ used_tiles = [it \in Slots |-> FALSE]
    /\ results = <<>>
    /\ positions = 0
    /\ last = NoStep
    /\ allocated = <<>>
    /\ sources = <<>>
    /\ SpriteIdle
    /\ LoaderIdle

\* The loop body for position k: the window image[y0:y1, x0:x1] is resolved by
\* identify_palette and written to output[iy, ix] / pal_map[iy, ix]; the
\* exception of identify_palette ends the call.
CutWorker(k) ==
    /\ cut_pc = "workers"
    /\ k \in workers
    /\ workers' = workers \ {k}
    /\ LET r == identify_palette(image[k + 1], palettes) IN
        IF r.raised
        THEN /\ cut_pc' = "error"
             /\ exception' = no_palette(tile_pos(k))
             /\ UNCHANGED <<output, pal_map>>
        ELSE /\ output' = [output EXCEPT ![cell(k, workers)] = r.tile]
             /\ pal_map' = [pal_map EXCEPT ![cell(k, workers)] = r.pal_index]
             /\ cut_pc' = "workers"
             /\ UNCHANGED exception
    /\ UNCHANGED <<image_shape, palettes, image>>
    /\ UNCHANGED <<packer_vars, tool_vars, load_vars, sprite_vars>>

\* return (output, pal_map), every iteration done.
WorkersReturn ==
    /\ cut_pc = "workers"
    /\ workers = {}
    /\ cut_pc' = "done"
    /\ UNCHANGED <<image_shape, palettes, image, output, pal_map, exception, workers>>
    /\ UNCHANGED <<packer_vars, tool_vars, load_vars, sprite_vars>>

WorkersNext ==
    \/ \E k \in WorkerPositions : CutWorker(k)
    \/ WorkersReturn

SpecWorkers == WorkersInit /\ [][WorkersNext]_vars

\* C24: the iteration of a tile position writes only its own cell of the tile
\* matrix and of the palette-index matrix, and whatever the order of the
\* iterations the returned matrices are those the windows and the palettes
\* determine cell by cell.
C24_OrderIndependent ==
    [][/\ \A k \in WorkerPositions :
             workers' = workers \ {k} /\ workers' # workers =>
                 \A j \in WorkerPositions :
                     j # k => output'[j + 1] = output[j + 1] /\ pal_map'[j + 1] = pal_map[j + 1]
       /\ cut_pc' = "done" =>
             \A k \in WorkerPositions :
                 LET r == identify_palette(image[k + 1], palettes) IN
                 /\ ~r.raised
                 /\ output'[k + 1] = r.tile
                 /\ pal_map'[k + 1] = r.pal_index]_vars

\* C24 witness: of two positions the second one was resolved first, with a
\* palette other than the first, and the first one is still to run.
C24_Witness ==
    /\ cut_pc = "workers"
    /\ out_h * out_w = 2
    /\ workers = {0}
    /\ pal_map[2] = 1
    /\ output[2] # ZeroTile

\* The slots offset .. offset + size - 1 the charset is given, while the
\* charset loop runs: positions counts the charset tiles stored so far.
CharsetRegion == {it \in Slots : char_offset - positions <= it /\ it < char_end}

\* C25 (as claimed): the k-th charset tile is stored as it is in slot
\* offset + k, whether or not the tileset holds it already; when the charset
\* loop is over every slot of the charset region holds a charset tile and is
\* used; and no image tile is stored over a used slot afterwards, so none is
\* stored in the region.
C25_CharsetRegionReserved ==
    [][/\ pc = "charset" /\ positions' = positions + 1 =>
             /\ tileset' = [tileset EXCEPT ![char_offset] = last'.tile]
             /\ used_tiles' = [used_tiles EXCEPT ![char_offset] = TRUE]
             /\ char_offset' - positions' = char_offset - positions
       /\ pc = "charset" /\ pc' = "images" =>
             \A it \in CharsetRegion : used_tiles[it]
       /\ ExtractStep =>
             \A it \in Slots : used_tiles[it] => tileset'[it] = tileset[it]]_vars

\* The slots the charset loop has written so far.
CharsetWritten == {it \in Slots : char_offset - positions <= it /\ it < char_offset}

\* C25 (amended): the k-th charset tile is stored as it is in slot offset + k,
\* whether or not the tileset holds it already; the loop stores no more tiles
\* than the size and stops earlier when the charset image has fewer, so when
\* it is over the used slots are exactly the ones written, each holding its
\* charset tile; and no image tile is stored over a used slot afterwards.
C25_CharsetTilesKept ==
    [][/\ pc = "charset" /\ positions' = positions + 1 =>
             /\ tileset' = [tileset EXCEPT ![char_offset] = last'.tile]
             /\ used_tiles' = [used_tiles EXCEPT ![char_offset] = TRUE]
             /\ char_offset' - positions' = char_offset - positions
             /\ char_offset' <= char_end
       /\ pc = "charset" /\ pc' = "images" =>
             \A it \in Slots : used_tiles[it] <=> it \in CharsetWritten
       /\ ExtractStep =>
             \A it \in Slots : used_tiles[it] => tileset'[it] = tileset[it]]_vars

\* C25 witness: the charset put one tile in slot 1, and the image tiles that
\* followed left it there, the new one taking slot 0.
C25_Witness ==
    /\ has_charset
    /\ pc = "images"
    /\ allocated = <<0>>
    /\ positions = 3
    /\ used_tiles[1]
    /\ tileset[1] # tileset[0]
    /\ tileset[1] # ZeroTile

\* C26 (as claimed): serial_linear(tileset, 4) returns the bytes of
\* serial_megadrive(tileset) and serial_linear(tileset, 8) those of
\* serial_snes_mode7(tileset), for every tileset of 8x8 tiles.
C26_LinearAgrees ==
    CalledAndReturned("serial_linear") =>
        /\ config.self.bit_count = 4 => serial = serial_megadrive(ser_tileset)
        /\ config.self.bit_count = 8 => serial = serial_snes_mode7(ser_tileset)

\* ------------------------------------------- TileSetLoader.load_tileset
\* Tiles are matrices of colours indexed [x][y]; the model cuts them down from
\* 8x8 to 2x3 pixels, six being enough to hold more than 4 colours.
LoaderTiles ==
    {<<<<0, 0, 0>>, <<0, 0, 0>>>>,
     <<<<1, 0, 0>>, <<0, 0, 0>>>>,
     <<<<0, 0, 1>>, <<0, 0, 0>>>>,
     <<<<0, 4, 0>>, <<0, 0, 0>>>>,
     <<<<0, 1, 2>>, <<3, 0, 0>>>>,
     <<<<1, 2, 3>>, <<4, 1, 1>>>>,
     <<<<0, 1, 2>>, <<3, 4, 0>>>>}

\* numpy.fliplr / numpy.flipud of a tile: axis 1 / axis 0 reversed.
np_fliplr(t) == [x \in DOMAIN t |-> [y \in DOMAIN t[x] |-> t[x][Len(t[x]) + 1 - y]]]
np_flipud(t) == [x \in DOMAIN t |-> t[Len(t) + 1 - x]]

\* The values of a matrix, as a set.
values_of(t) == {t[x][y] : x \in DOMAIN t, y \in DOMAIN t[1]}

\* sorted(S) as a tuple, for a set of integers.
RECURSIVE sorted(_)
sorted(S) ==
    IF S = {} THEN <<>>
    ELSE LET m == CHOOSE x \in S : \A y \in S : x <= y IN <<m>> \o sorted(S \ {m})

\* extract_palette: the colours of the tile, sorted, as a tuple.
extract_palette(tile) == sorted(values_of(tile))

\* Python's order on tuples of integers.
RECURSIVE tuple_less(_, _)
tuple_less(a, b) ==
    IF a = <<>> THEN b # <<>>
    ELSE IF b = <<>> THEN FALSE
    ELSE IF a[1] # b[1] THEN a[1] < b[1]
    ELSE tuple_less(Tail(a), Tail(b))

\* complete_palettes = list(complete_palettes); complete_palettes.sort()
RECURSIVE sorted_tuples(_)
sorted_tuples(S) ==
    IF S = {} THEN <<>>
    ELSE LET m == CHOOSE x \in S : \A y \in S \ {x} : tuple_less(x, y) IN
         <<m>> \o sorted_tuples(S \ {m})

\* match_palette: every colour of the incomplete palette is in the complete one.
match_palette(incomplete_palette, complete_palette) ==
    \/ incomplete_palette = complete_palette
    \/ \A i \in DOMAIN incomplete_palette :
          \E j \in DOMAIN complete_palette : complete_palette[j] = incomplete_palette[i]

\* get_complete_palette: index (from 0) and palette of the first complete
\* palette that matches; (-1, []) when none does.
get_complete_palette(incomplete_palette, complete_list) ==
    LET found == {i \in DOMAIN complete_list : match_palette(incomplete_palette, complete_list[i])} IN
    IF found = {} THEN [index |-> -1, palette |-> <<>>]
    ELSE LET i == CHOOSE i \in found : \A j \in found : i <= j IN
         [index |-> i - 1, palette |-> complete_list[i]]

\* palette.index(color) if color in palette else 0
color_index(palette, color) ==
    IF \E i \in DOMAIN palette : palette[i] = color
    THEN (CHOOSE i \in DOMAIN palette : palette[i] = color) - 1
    ELSE 0

\* simplify_tile: every colour replaced by its index in the palette.
simplify_tile(tile, palette) ==
    [x \in DOMAIN tile |-> [y \in DOMAIN tile[x] |-> color_index(palette, tile[x][y])]]

\* __compare_tiles: the cells of tile1 | (tile2 << 32) take as many values as
\* expected (tile1 holds colours below 2^32).
compare_cells(tile1, tile2, expected_color_count) ==
    Cardinality({<<tile1[x][y], tile2[x][y]>> : x \in DOMAIN tile1, y \in DOMAIN tile1[1]})
        = expected_color_count

\* compare_tiles: (result, flip)
compare_tiles(tile1, nb_colors1, tile2, nb_colors2) ==
    IF nb_colors1 # nb_colors2 THEN [result |-> FALSE, flip |-> -1]
    ELSE IF compare_cells(tile1, tile2, nb_colors1) THEN [result |-> TRUE, flip |-> 0]
    ELSE IF is_spritesheet /\ compare_cells(tile1, np_fliplr(tile2), nb_colors1)
    THEN [result |-> TRUE, flip |-> 1]
    ELSE IF is_spritesheet /\ compare_cells(tile1, np_flipud(tile2), nb_colors1)
    THEN [result |-> TRUE, flip |-> 2]
    ELSE IF is_spritesheet /\ compare_cells(tile1, np_flipud(np_fliplr(tile2)), nb_colors1)
    THEN [result |-> TRUE, flip |-> 3]
    ELSE [result |-> FALSE, flip |-> -1]

\* self.tileset has 0x100 entries (None, None), scaled to TileCount; None is
\* <<>> here.
LoaderSlots == 1..TileCount

\* A TileSetLoader(is_spritesheet) about to load an image of tiles.
LoaderInit ==
    /\ load_pc = "load"
    /\ is_spritesheet \in BOOLEAN
    /\ uint_wraps \in BOOLEAN
    /\ matrix \in UNION {[1..n -> LoaderTiles] : n \in 1..MaxPositions}
    /\ complete_palettes = <<>>
    /\ self_tilemap = <<>>
    /\ self_tileset = [i \in LoaderSlots |-> <<>>]
    /\ ToolIdle
    /\ cut_pc = "idle"
    /\ image_shape = <<0, 0>>
    /\ palettes = <<>>
    /\ image = <<>>
    /\ output = <<>>
    /\ pal_map = <<>>
    /\ exception = <<>>
    /\ workers = {}
    /\ pc = "idle"
    /\ flipping = <<FALSE, FALSE>>
    /\ has_charset = FALSE
    /\ char_offset = 0
    /\ char_end = 0
    /\ tileset = [it \in Slots |-> ZeroTile]
    /\ used_tiles = [it \in Slots |-> FALSE]
    /\ results = <<>>
    /\ positions = 0
    /\ last = NoStep
    /\ allocated = <<>>
    /\ sources = <<>>
    /\ SpriteIdle

\* The first loop of load_tileset: a tile of more than 4 colours and more
\* than 4 complete palettes are errors; otherwise the complete palettes are
\* sorted and the tilemap is allocated.
LoadPalettes ==
    /\ load_pc = "load"
    /\ LET complete_set == {extract_palette(matrix[k]) : k \in
                           {k \in DOMAIN matrix : Len(extract_palette(matrix[k])) = 4}} IN
        IF \E k \in DOMAIN matrix : Len(extract_palette(matrix[k])) > 4
        THEN /\ load_pc' = "Exception: more than 4 colors"
             /\ UNCHANGED complete_palettes
        ELSE IF Cardinality(complete_set) > 4
        THEN /\ load_pc' = "Exception: Too many palettes"
             /\ UNCHANGED complete_palettes
        ELSE /\ load_pc' = "tiles"
             /\ complete_palettes' = sorted_tuples(complete_set)
    /\ UNCHANGED <<is_spritesheet, uint_wraps, matrix, self_tilemap, self_tileset>>
    /\ UNCHANGED <<packer_vars, cut_vars, tool_vars, sprite_vars>>

\* numpy.uint is 64 bits wide; the model keeps its wrap-around with 16 bits.
to_uint(x) == x % 65536

\* The second loop of load_tileset, for one tile position: tile_data is the row
\* of the tilemap, written field by field; storing the palette index -1 in it
\* either wraps or raises OverflowError, as numpy decides.
LoadTile ==
    /\ load_pc = "tiles"
    /\ Len(self_tilemap) < Len(matrix)
    /\ LET tile1 == matrix[Len(self_tilemap) + 1]
           palette == extract_palette(tile1)
           nb_colors1 == Len(palette)
           found == get_complete_palette(palette, complete_palettes)
           matching == {i \in LoaderSlots :
                           /\ self_tileset[i] # <<>>
                           /\ compare_tiles(tile1, nb_colors1,
                                            self_tileset[i][1], self_tileset[i][2]).result}
           unassigned == {i \in LoaderSlots : self_tileset[i] = <<>>}
           stores == found.index >= 0 \/ uint_wraps IN
        IF matching # {}
        THEN LET i == CHOOSE i \in matching : \A j \in matching : i <= j
                 flip_ == compare_tiles(tile1, nb_colors1,
                                        self_tileset[i][1], self_tileset[i][2]).flip IN
             /\ self_tilemap' = Append(self_tilemap,
                    IF stores THEN <<i - 1, to_uint(found.index), flip_>>
                              ELSE <<i - 1, 0, 0>>)
             /\ load_pc' = IF stores THEN "tiles" ELSE "OverflowError"
             /\ UNCHANGED self_tileset
        ELSE IF unassigned # {}
        THEN LET i == CHOOSE i \in unassigned : \A j \in unassigned : i <= j IN
             /\ self_tileset' = [self_tileset EXCEPT
                                    ![i] = <<simplify_tile(tile1, found.palette), nb_colors1>>]
             /\ self_tilemap' = Append(self_tilemap,
                    IF stores THEN <<i - 1, to_uint(found.index), 0>>
                              ELSE <<i - 1, 0, 0>>)
             /\ load_pc' = IF stores THEN "tiles" ELSE "OverflowError"
        ELSE /\ load_pc' = "Exception: Too many tiles used."
             /\ UNCHANGED <<self_tilemap, self_tileset>>
    /\ UNCHANGED <<is_spritesheet, uint_wraps, matrix, complete_palettes>>
    /\ UNCHANGED <<packer_vars, cut_vars, tool_vars, sprite_vars>>

\* return self.tilemap, self.tileset
LoadReturn ==
    /\ load_pc = "tiles"
    /\ Len(self_tilemap) = Len(matrix)
    /\ load_pc' = "returned"
    /\ UNCHANGED <<is_spritesheet, uint_wraps, matrix, complete_palettes,
                   self_tilemap, self_tileset>>
    /\ UNCHANGED <<packer_vars, cut_vars, tool_vars, sprite_vars>>

LoaderNext ==
    \/ LoadPalettes
    \/ LoadTile
    \/ LoadReturn

SpecLoader == LoaderInit /\ [][LoaderNext]_vars

\* The tile of the position has a colour that no complete palette holds, or
\* there is no complete palette.
Unresolved(k) ==
    get_complete_palette(extract_palette(matrix[k]), complete_palettes).index = -1

\* C27 (as claimed): a tile whose colours are not all in one complete palette
\* ends load_tileset with an error and no tile is stored for it; no row of a
\* tilemap that load_tileset goes on with or returns has a palette index
\* outside 0 .. number of complete palettes - 1.
C27_UnresolvedIsError ==
    [][load_pc = "tiles" /\ Len(self_tilemap) < Len(matrix) =>
          /\ Unresolved(Len(self_tilemap) + 1) =>
                /\ load_pc' \notin {"tiles", "returned"}
                /\ self_tileset' = self_tileset
          /\ load_pc' = "tiles" =>
                \A k \in DOMAIN self_tilemap' :
                    self_tilemap'[k][2] \in 0..(Len(complete_palettes) - 1)]_vars

\* No position found the tileset full so far.
WithinCapacity == \A e \in Entries : e[1] \in Slots

\* C28: in a run that does not exceed the capacity of the tileset, every entry
\* gives back its source tile: the tile stored at tile_index, flipped top to
\* bottom for flip bits 01, left to right for 10, both ways for 11, is the
\* indexed tile the cutter produced at that position.
C28_EntriesReconstruct ==
    WithinCapacity =>
        \A i \in DOMAIN results :
            \A k \in DOMAIN results[i] :
                apply_flip(results[i][k][3], tileset[results[i][k][1]]) = sources[i][k]

\* C28 witness: a run within capacity whose entries use the flip bits 01 and
\* 10 or 11.
C28_Witness ==
    /\ WithinCapacity
    /\ \E e \in Entries : e[3] = 1
    /\ \E e \in Entries : e[3] \in {2, 3}

\* --------------------------- tileset_packer_spritesheet: process, Sequence
\* The indexed tiles a frame is made of: the empty tile, a tile with one lit
\* pixel, its left-right mirror image, and a tile that no flip maps on them.
SpriteTiles ==
    {ZeroTile,
     <<<<1, 0>>, <<0, 0>>>>,
     <<<<0, 1>>, <<0, 0>>>>,
     <<<<1, 0>>, <<0, 1>>>>}

\* Shapes (map_h, map_w) of the frames cut into tiles.
FrameShapes == {<<1, 1>>, <<1, 2>>, <<2, 1>>}

\* Matrices of the shape over a set of values.
Maps(shape, values) == [1..shape[1] -> [1..shape[2] -> values]]

\* Matrices of the shape holding one value at every position: the frames
\* enumerated draw all their tiles with one palette.
UniformMaps(shape, values) ==
    {[iy \in 1..shape[1] |-> [ix \in 1..shape[2] |-> v]] : v \in values}

map_h(m) == Len(m)
map_w(m) == Len(m[1])

\* np.flip(tile_map0, (0, 2)), np.flip(tile_map0, (1, 3)), np.flip(tile_map0):
\* the rows and/or columns of the map reversed, every tile flipped alike.
flip_tile_map(c, tm) ==
    [iy \in 1..map_h(tm) |-> [ix \in 1..map_w(tm) |->
        apply_flip(c, tm[IF c \in {1, 3} THEN map_h(tm) + 1 - iy ELSE iy]
                        [IF c \in {2, 3} THEN map_w(tm) + 1 - ix ELSE ix])]]

\* np.flipud(pal_map0), np.fliplr(pal_map0), np.flip(pal_map0)
flip_pal_map(c, pm) ==
    [iy \in 1..map_h(pm) |-> [ix \in 1..map_w(pm) |->
        pm[IF c \in {1, 3} THEN map_h(pm) + 1 - iy ELSE iy]
          [IF c \in {2, 3} THEN map_w(pm) + 1 - ix ELSE ix]]]

\* The cell of a matrix at the k-th position (k from 1) of the row-major scan
\* for iy in prange(map_h): for ix in prange(map_w).
cell_at(m, k) == m[((k - 1) \div map_w(m)) + 1][((k - 1) % map_w(m)) + 1]

\* The calls of extract_tileset Sequence.process makes for a frame after the
\* call c: if self.flip_v, if self.flip_h, if flip_vh.
calls_after(c) ==
    {d \in 1..3 : /\ d > c
                  /\ (d \in {1, 3} => sequence.flip_v)
                  /\ (d \in {2, 3} => sequence.flip_h)}

\* Mutant of SpriteInit: the extra slot is not marked used.
SpriteInitUnmarked ==
    /\ pc = "frames"
    /\ flipping \in BOOLEAN \X BOOLEAN
    /\ sequence \in [flip_v : BOOLEAN, flip_h : BOOLEAN]
    /\ tileset = [it \in 0..TileCount |-> ZeroTile]
    /\ used_tiles = [it \in 0..TileCount |-> FALSE]
    /\ tile_map0 = <<>>
    /\ pal_map0 = <<>>
    /\ call = 0
    /\ has_charset = FALSE
    /\ char_offset = 0
    /\ char_end = 0
    /\ results = <<>>
    /\ positions = 0
    /\ last = NoStep
    /\ allocated = <<>>
    /\ sources = <<>>
    /\ LoaderIdle
    /\ ToolIdle
    /\ cut_pc = "idle"
    /\ image_shape = <<0, 0>>
    /\ palettes = <<>>
    /\ image = <<>>
    /\ output = <<>>
    /\ pal_map = <<>>
    /\ exception = <<>>
    /\ workers = {}

\* process(): the tileset has system.tile_count + 1 slots, the last one (the
\* empty tile) marked used; a Sequence with its flip_v and flip_h is about to
\* be processed for a profile with its flipping().
SpriteInit ==
    /\ pc = "frames"
    /\ flipping \in BOOLEAN \X BOOLEAN
    /\ sequence \in [flip_v : BOOLEAN, flip_h : BOOLEAN]
    /\ tileset = [it \in 0..TileCount |-> ZeroTile]
    /\ used_tiles = [it \in 0..TileCount |-> it = TileCount]
    /\ tile_map0 = <<>>
    /\ pal_map0 = <<>>
    /\ call = 0
    /\ has_charset = FALSE
    /\ char_offset = 0
    /\ char_end = 0
    /\ results = <<>>
    /\ positions = 0
    /\ last = NoStep
    /\ allocated = <<>>
    /\ sources = <<>>
    /\ LoaderIdle
    /\ ToolIdle
    /\ cut_pc = "idle"
    /\ image_shape = <<0, 0>>
    /\ palettes = <<>>
    /\ image = <<>>
    /\ output = <<>>
    /\ pal_map = <<>>
    /\ exception = <<>>
    /\ workers = {}

\* for element in self.sequence: the frame is cut into tiles and the first
\* call of extract_tileset, on (tile_map0, pal_map0), starts.
BeginFrame(tm, pm) ==
    /\ pc = "frames"
    /\ positions + map_h(tm) * map_w(tm) <= MaxPositions
    /\ pc' = "extract"
    /\ tile_map0' = tm
    /\ pal_map0' = pm
    /\ call' = 0
    /\ results' = Append(results, <<>>)
    /\ sources' = Append(sources, <<>>)
    /\ UNCHANGED <<flipping, has_charset, char_offset, char_end, tileset, used_tiles,
                   positions, last, allocated, sequence>>
    /\ UNCHANGED <<cut_vars, tool_vars, load_vars>>

\* One tile position of the call of extract_tileset going on, over the map
\* flipped as the call asks.
FrameExtractTile ==
    /\ pc = "extract"
    /\ Len(results[Len(results)]) < map_h(tile_map0) * map_w(tile_map0)
    /\ LET k == Len(results[Len(results)]) + 1
           tile == cell_at(flip_tile_map(call, tile_map0), k)
           pal == cell_at(flip_pal_map(call, pal_map0), k)
           r == extract_tile(tile, pal, tileset, used_tiles, flipping) IN
        /\ tileset' = r.tileset
        /\ used_tiles' = r.used_tiles
        /\ results' = [results EXCEPT ![Len(results)] = Append(@, r.entry)]
        /\ sources' = [sources EXCEPT ![Len(sources)] = Append(@, tile)]
        /\ last' = [kind |-> r.kind, tile |-> tile, pal |-> pal]
        /\ allocated' = IF r.kind = "alloc" THEN Append(allocated, r.entry[1])
                                            ELSE allocated
    /\ positions' = IF call = 0 THEN positions + 1 ELSE positions
    /\ UNCHANGED <<pc, flipping, has_charset, char_offset, char_end>>
    /\ UNCHANGED sprite_vars
    /\ UNCHANGED <<cut_vars, tool_vars, load_vars>>

\* The call returned its output and the next flipped variant the sequence
\* asks for is processed.
FrameNextCall ==
    /\ pc = "extract"
    /\ Len(results[Len(results)]) = map_h(tile_map0) * map_w(tile_map0)
    /\ calls_after(call) # {}
    /\ call' = CHOOSE d \in calls_after(call) : \A e \in calls_after(call) : d <= e
    /\ results' = Append(results, <<>>)
    /\ sources' = Append(sources, <<>>)
    /\ UNCHANGED <<pc, flipping, has_charset, char_offset, char_end, tileset, used_tiles,
                   positions, last, allocated, sequence, tile_map0, pal_map0>>
    /\ UNCHANGED <<cut_vars, tool_vars, load_vars>>

\* The last call for the frame returned.
FrameEnd ==
    /\ pc = "extract"
    /\ Len(results[Len(results)]) = map_h(tile_map0) * map_w(tile_map0)
    /\ calls_after(call) = {}
    /\ pc' = "frames"
    /\ tile_map0' = <<>>
    /\ pal_map0' = <<>>
    /\ call' = 0
    /\ UNCHANGED <<flipping, has_charset, char_offset, char_end, tileset, used_tiles,
                   results, positions, last, allocated, sources, sequence>>
    /\ UNCHANGED <<cut_vars, tool_vars, load_vars>>

\* process(): return tileset[:-1]
SpriteReturn ==
    /\ pc = "frames"
    /\ pc' = "returned"
    /\ tileset' = [it \in 0..(TileCount - 1) |-> tileset[it]]
    /\ UNCHANGED <<flipping, has_charset, char_offset, char_end, used_tiles,
                   results, positions, last, allocated, sources>>
    /\ UNCHANGED sprite_vars
    /\ UNCHANGED <<cut_vars, tool_vars, load_vars>>

SpriteNext ==
    \/ \E shape \in FrameShapes :
          \E tm \in Maps(shape, SpriteTiles), pm \in UniformMaps(shape, PaletteIndexes) :
              BeginFrame(tm, pm)
    \/ FrameExtractTile
    \/ FrameNextCall
    \/ FrameEnd
    \/ SpriteReturn

SpecSprites == SpriteInit /\ [][SpriteNext]_vars

\* Frame.to_serial: the sprites of an output of extract_tileset of width mw,
\* the rows whose tile index is empty_tile left out (the duration of the
\* frame is not part of the model).
to_serial(indexed_map, mw, origin_offset, empty_tile) ==
    LET sprites[k \in 0..Len(indexed_map)] ==
            IF k = 0 THEN <<>>
            ELSE IF indexed_map[k][1] = empty_tile THEN sprites[k - 1]
            ELSE Append(sprites[k - 1],
                        [tile |-> indexed_map[k][1],
                         palette |-> indexed_map[k][2],
                         y |-> ((k - 1) \div mw) * tile_h - origin_offset[1],
                         x |-> ((k - 1) % mw) * tile_w - origin_offset[2],
                         flip_v |-> indexed_map[k][3] % 2 # 0,
                         flip_h |-> (indexed_map[k][3] \div 2) % 2 # 0]) IN
    sprites[Len(indexed_map)]

\* empty_tile = system.tile_count
empty_tile == TileCount

\* C29: with the extra slot tile_count all-zero and used from the start, no
\* used slot below tile_count holds an all-zero tile, every all-zero source
\* tile gets the index tile_count and no sprite in the metasprite, and the
\* tileset returned has tile_count slots.
C29_SentinelTakesEmptyTiles ==
    /\ pc \in {"frames", "extract"} =>
          /\ DOMAIN tileset = 0..TileCount
          /\ used_tiles[empty_tile] /\ tileset[empty_tile] = ZeroTile
    /\ pc = "returned" => DOMAIN tileset = 0..(TileCount - 1)
    /\ \A it \in 0..(TileCount - 1) : used_tiles[it] => tileset[it] # ZeroTile
    /\ \A i \in DOMAIN results : \A k \in DOMAIN results[i] :
          sources[i][k] = ZeroTile => results[i][k][1] = empty_tile
    /\ pc = "extract" =>
          LET sprites == to_serial(results[Len(results)], map_w(tile_map0), <<0, 0>>,
                                   empty_tile) IN
          /\ \A j \in DOMAIN sprites : sprites[j].tile # empty_tile
          /\ Len(sprites) = Cardinality({k \in DOMAIN sources[Len(sources)] :
                                            sources[Len(sources)][k] # ZeroTile})

\* C29 witness: the tileset was returned after a frame with an empty tile and
\* another tile, which took slot 0.
C29_Witness ==
    /\ pc = "returned"
    /\ used_tiles[0]
    /\ \E i \in DOMAIN sources : \E k \in DOMAIN sources[i] :
          /\ k > 1
          /\ sources[i][k] = ZeroTile
          /\ results[i][k][1] = empty_tile

\* Every flip the sequence asks for is one the profile supports.
FlipsSupported ==
    /\ sequence.flip_v => flipping[1]
    /\ sequence.flip_h => flipping[2]

\* C30 (as claimed): when the profile supports the flips the sequence asks
\* for, a tile position of a mirrored variant of a frame leaves the tileset and
\* the used bitmap as they were and gets the index of a used slot.
C30_MirrorsAllocateNothing ==
    [][(/\ pc = "extract"
        /\ call > 0
        /\ Len(results') = Len(results)
        /\ results' # results
        /\ FlipsSupported)
       => /\ tileset' = tileset
          /\ used_tiles' = used_tiles
          /\ NewEntry[1] \in DOMAIN used_tiles
          /\ used_tiles[NewEntry[1]]]_vars
====
